---------------------------- MODULE Spec2Model ----------------------------
(***************************************************************************)
(* LibyaLink "doctor": the diagnostic run of app/cmd/doctor.go.            *)
(*                                                                         *)
(* One doctor process runs runDoctor: six checks in a fixed order, each    *)
(* returning a list of checkResult, appended to `results`; then the        *)
(* counting loop, the verdict line and the return.  The viper Config       *)
(* Source, the file system, the UDP port table and /proc are the           *)
(* environment: what a call into them can answer is chosen with \E.        *)
(***************************************************************************)
EXTENDS Integers, Sequences, FiniteSets, TLC

VARIABLES
    pc,          \* the statement of runDoctor about to execute
    calls,       \* the checks runDoctor has called so far, in call order
    ret,         \* the list the last called check returned
    results,     \* runDoctor's `results` slice
    failCount,   \* runDoctor's failCount
    warnCount,   \* runDoctor's warnCount
    verdict,     \* the verdict line printed ("" before it is printed)
    exitCode,    \* the process exit status (-1 while the process runs)
    configFile,  \* viper's configFile, what viper.ConfigFileUsed() returns
    config,      \* viper's loaded configuration (all keys unset before a load)
    goos,        \* runtime.GOOS
    privileged,  \* whether the process may bind ports below 1024
    portOwner,   \* who holds the UDP port of the listen address
    sysctl,      \* what reading rmem_max and wmem_max answers, when the host fixes it
    tunePC,      \* the statement of tuneUDPBuffer about to execute
    conn,        \* tuneUDPBuffer's conn argument, the caller's UDP socket
    logger,      \* tuneUDPBuffer's log argument
    logged,      \* the entries written to the logger, in order
    sockCalls    \* the calls made on conn and what each answered, in order

vars == <<pc, calls, ret, results, failCount, warnCount, verdict, exitCode,
          configFile, config, goos, privileged, portOwner,
          sysctl, tunePC, conn, logger, logged, sockCalls>>

\* The state around one tuneUDPBuffer call.
tunerVars == <<tunePC, conn, logger, logged, sockCalls>>

-----------------------------------------------------------------------------
(* doctor.go:15-19, the three status glyphs.                               *)
checkOK == "OK"
checkFail == "FAIL"
checkWarn == "WARN"

(* doctor.go:34-38, type checkResult.  Message is the format text; the     *)
(* values formatted into it are left out.                                  *)
checkResult(name, status, message) ==
    [Name |-> name, Status |-> status, Message |-> message]

-----------------------------------------------------------------------------
(* Bounds of the model.                                                    *)

\* The passwords of the generated configurations are empty or have
\* shortPasswordLen - 1 .. MaxPwLen characters.
MaxPwLen == 8

\* How many times in succession one process calls checkPortAvailability in
\* SpecPort.
MaxPortRuns == 3

\* How many times checkAuthConfig is called in succession on one
\* configuration whose auth.type is re-spelled between the calls.
MaxAuthRuns == 3

-----------------------------------------------------------------------------
(* Program constants.                                                      *)

\* doctor.go:390, len(pw) < 8.
shortPasswordLen == 8

\* doctor.go:332 and 339, the recommended rmem_max and wmem_max.
recommendedBuffer == 8388608

\* doctor.go:48: the capacity runDoctor gives its results slice.
resultsCap == 10

-----------------------------------------------------------------------------
(* The Config Source: the keys the checks look up.                         *)

\* A string whose characters are looked at is a tuple of characters.
PASSWORD_lc == <<"p","a","s","s","w","o","r","d">>
PASSWORD_uc == <<"P","A","S","S","W","O","R","D">>
Password_mc == <<"P","a","s","s","w","o","r","d">>
USERPASS_lc == <<"u","s","e","r","p","a","s","s">>
HTTP_lc == <<"h","t","t","p">>
HTTPS_lc == <<"h","t","t","p","s">>
HTTP_uc == <<"H","T","T","P">>
TOKEN_lc == <<"t","o","k","e","n">>

\* A password of n ASCII characters.
PwOfLen(n) == [i \in 1 .. n |-> "x"]

\* A password of four Arabic letters: four characters, two bytes each in
\* UTF-8, which is how Go holds a string.
ArabicPassword == <<"U+0633", "U+0644", "U+0627", "U+0645">>

NoUsers == [u \in {} |-> ""]
OneUser == [u \in {"alice"} |-> "secret-of-alice"]

\* The auth section of a configuration file.
AuthSections ==
    {[authType |-> <<>>, password |-> <<>>, userpass |-> NoUsers, url |-> ""]}
    \cup {[authType |-> t, password |-> PwOfLen(n), userpass |-> NoUsers, url |-> ""] :
            t \in {PASSWORD_lc}, n \in {0} \cup ((shortPasswordLen - 1) .. MaxPwLen)}
    \cup {[authType |-> PASSWORD_lc, password |-> ArabicPassword, userpass |-> NoUsers, url |-> ""]}
    \cup {[authType |-> t, password |-> PwOfLen(shortPasswordLen - 1), userpass |-> NoUsers, url |-> ""] :
            t \in {PASSWORD_uc, Password_mc}}
    \cup {[authType |-> USERPASS_lc, password |-> <<>>, userpass |-> u, url |-> ""] :
            u \in {NoUsers, OneUser}}
    \cup {[authType |-> t, password |-> <<>>, userpass |-> NoUsers, url |-> u] :
            t \in {HTTP_lc, HTTPS_lc}, u \in {"", "http://127.0.0.1/auth"}}
    \cup {[authType |-> t, password |-> <<>>, userpass |-> NoUsers, url |-> ""] :
            t \in {HTTP_uc, TOKEN_lc}}

\* The tls and acme sections: viper.IsSet("tls") holds when the file has a
\* tls section, so tls.cert and tls.key are "" when it has none.
TLSSections ==
    {[hasTLS |-> FALSE, cert |-> "", key |-> "", hasACME |-> a] : a \in BOOLEAN}
    \cup {[hasTLS |-> TRUE, cert |-> c, key |-> k, hasACME |-> a] :
            c \in {"", "/etc/libyalink/server.crt"},
            k \in {"", "/etc/libyalink/server.key"},
            a \in BOOLEAN}

\* doctor.go:265 uses defaultListenAddr, declared in the server command.
defaultListenAddr == ":443"

ListenValues == {"", ":8443", "not-an-address", "192.0.2.1:8443"}

\* One configuration file: its tls/acme sections, its listen key and its
\* auth section.
ConfigOf(t, l, a) ==
    [hasTLS |-> t.hasTLS, cert |-> t.cert, key |-> t.key, hasACME |-> t.hasACME,
     listen |-> l,
     authType |-> a.authType, password |-> a.password,
     userpass |-> a.userpass, url |-> a.url]

\* The auth sections combined with every tls/acme section and listen value:
\* no auth.type, a short password, a long enough password.
CoreAuthSections ==
    {a \in AuthSections :
        \/ a.authType = <<>>
        \/ a.authType = PASSWORD_lc /\ Len(a.password) \in {shortPasswordLen - 1, shortPasswordLen}}

\* The tls/acme sections and listen values combined with every auth section.
CoreTLSSections ==
    {t \in TLSSections : ~t.hasTLS /\ t.hasACME}

CoreListenValues == {"", ":8443"}

\* What a readable, well-formed configuration file can hold.
ConfigFiles ==
    {ConfigOf(t, l, a) : t \in TLSSections, l \in ListenValues, a \in CoreAuthSections}
    \cup {ConfigOf(t, l, a) : t \in CoreTLSSections, l \in CoreListenValues, a \in AuthSections}

\* viper before any ReadInConfig: no key is set, every Get returns the zero value.
NothingLoaded ==
    [hasTLS |-> FALSE, cert |-> "", key |-> "", hasACME |-> FALSE,
     listen |-> "",
     authType |-> <<>>, password |-> <<>>, userpass |-> NoUsers, url |-> ""]

\* The path given with -c, and the path viper's search finds.
ExplicitConfigPath == "/etc/libyalink/config.yaml"
SearchedConfigPath == "./config.yaml"

\* What ReadInConfig can meet on disk: no file, a file it cannot read or
\* parse, or a well-formed file.
ConfigDisk ==
    {[state |-> s, content |-> NothingLoaded] : s \in {"absent", "unparsable"}}
    \cup {[state |-> "valid", content |-> c] : c \in ConfigFiles}

-----------------------------------------------------------------------------
(* runDoctor's bookkeeping around a call: results = append(results, f()...) *)
Collect(check, next) ==
    /\ results' = results \o ret'
    /\ calls' = Append(calls, check)
    /\ pc' = next
    /\ UNCHANGED <<failCount, warnCount, verdict, exitCode, goos, privileged>>
    /\ UNCHANGED <<sysctl, tunerVars>>

-----------------------------------------------------------------------------
(* doctor.go:97-111.  viper.ReadInConfig: with no configFile set it        *)
(* searches for one and remembers the path it finds; then it reads and     *)
(* parses the file.  Any of the three can fail; only a successful parse    *)
(* replaces the configuration.                                             *)
checkConfigReadable ==
    \E disk \in ConfigDisk :
        LET found == IF configFile # "" THEN configFile
                     ELSE IF disk.state = "absent" THEN "" ELSE SearchedConfigPath
            err == disk.state # "valid"
        IN  /\ configFile' = found
            /\ config' = IF err THEN config ELSE disk.content
            /\ ret' = IF err
                      THEN <<checkResult("Config File", checkFail, "Cannot read config file: %v")>>
                      ELSE <<checkResult("Config File", checkOK, "Config loaded from: %s")>>
            /\ UNCHANGED portOwner

(* tlsACMEResult without the test for both being set: tls wins.           *)
tlsACMEResultNoConflict(hasTLS, hasACME) ==
    IF ~hasTLS /\ ~hasACME
    THEN checkResult("TLS/ACME", checkFail, "Neither 'tls' nor 'acme' is configured.")
    ELSE IF hasTLS
    THEN checkResult("TLS/ACME", checkOK, "TLS mode: using local certificate files.")
    ELSE checkResult("TLS/ACME", checkOK, "ACME mode: using automatic certificate provisioning.")

(* doctor.go:119-147, the four combinations of hasTLS and hasACME.         *)
tlsACMEResult(hasTLS, hasACME) ==
    IF hasTLS /\ hasACME
    THEN checkResult("TLS/ACME", checkFail, "Both 'tls' and 'acme' are set.")
    ELSE IF ~hasTLS /\ ~hasACME
    THEN checkResult("TLS/ACME", checkFail, "Neither 'tls' nor 'acme' is configured.")
    ELSE IF hasTLS
    THEN checkResult("TLS/ACME", checkOK, "TLS mode: using local certificate files.")
    ELSE checkResult("TLS/ACME", checkOK, "ACME mode: using automatic certificate provisioning.")

(* doctor.go:113-148.                                                      *)
\* checkTLSACMEConflict settling the conflict it finds by unsetting acme.
checkTLSACMEConflictUnsettingACME ==
    /\ ret' = IF configFile = "" THEN <<>>
              ELSE <<tlsACMEResult(config.hasTLS, config.hasACME)>>
    /\ config' = IF config.hasTLS THEN [config EXCEPT !.hasACME = FALSE] ELSE config
    /\ UNCHANGED <<configFile, portOwner>>

checkTLSACMEConflict ==
    /\ ret' = IF configFile = "" THEN <<>>
              ELSE <<tlsACMEResult(config.hasTLS, config.hasACME)>>
    /\ UNCHANGED <<configFile, config, portOwner>>

-----------------------------------------------------------------------------
(* The file system as checkTLSFiles meets it: what os.Stat answers, what   *)
(* os.Open answers, and the size os.Stat reported.                         *)
FileStates ==
    { [stat |-> "ENOENT", open |-> "ENOENT", size |-> 0],
      [stat |-> "EACCES", open |-> "EACCES", size |-> 0],
      [stat |-> "ENOTDIR", open |-> "ENOTDIR", size |-> 0],
      [stat |-> "ok", open |-> "EACCES", size |-> 1200],
      [stat |-> "ok", open |-> "ok", size |-> 0],
      [stat |-> "ok", open |-> "ok", size |-> 1200] }

(* doctor.go:211-260.                                                      *)
checkFileReadable(name, st) ==
    IF st.stat = "ENOENT" THEN checkResult(name, checkFail, "File not found: %s")
    ELSE IF st.stat = "EACCES" THEN checkResult(name, checkFail, "Permission denied on %s")
    ELSE IF st.stat # "ok" THEN checkResult(name, checkFail, "Error accessing %s: %v")
    ELSE IF st.open # "ok" THEN checkResult(name, checkFail, "Cannot open %s: %v")
    ELSE IF st.size = 0 THEN checkResult(name, checkFail, "File is empty: %s")
    ELSE checkResult(name, checkOK, "Readable (%d bytes): %s")

(* doctor.go:192, tls.LoadX509KeyPair: it reads both files and parses the  *)
(* PEM blocks of each, so it fails on a file it cannot read or that is     *)
(* empty; `matches` is whether the well-formed pair belongs together.      *)
LoadX509KeyPairErr(certSt, keySt, matches) ==
    ~ ( /\ certSt.open = "ok" /\ certSt.size > 0
        /\ keySt.open = "ok" /\ keySt.size > 0
        /\ matches )

(* tlsFileResult without the test for an empty path.                       *)
tlsFileResultNoEmptyTest(name, path, st) == checkFileReadable(name, st)

(* doctor.go:160-173, the "Check cert file" block (the key block,          *)
(* doctor.go:175-188, is the same code with the other name).               *)
tlsFileResult(name, path, st) ==
    IF path = ""
    THEN IF name = "TLS Cert"
         THEN checkResult(name, checkFail, "tls.cert path is empty.")
         ELSE checkResult(name, checkFail, "tls.key path is empty.")
    ELSE checkFileReadable(name, st)

(* doctor.go:190-206, the "try to parse the pair" block.                   *)
tlsPairResult(certPath, keyPath, certSt, keySt, matches) ==
    IF certPath # "" /\ keyPath # ""
    THEN IF LoadX509KeyPairErr(certSt, keySt, matches)
         THEN <<checkResult("TLS Pair", checkFail, "Certificate/Key pair is invalid: %v")>>
         ELSE <<checkResult("TLS Pair", checkOK, "Certificate and key pair loaded successfully.")>>
    ELSE <<>>

(* doctor.go:150-209.                                                      *)
checkTLSFiles ==
    /\ \E certSt \in FileStates, keySt \in FileStates, matches \in BOOLEAN :
          ret' = IF ~config.hasTLS THEN <<>>
                 ELSE LET certPath == config.cert
                          keyPath == config.key
                      IN  <<tlsFileResult("TLS Cert", certPath, certSt)>>
                          \o <<tlsFileResult("TLS Key", keyPath, keySt)>>
                          \o tlsPairResult(certPath, keyPath, certSt, keySt, matches)
    /\ UNCHANGED <<configFile, config, portOwner>>

-----------------------------------------------------------------------------
(* The network as checkPortAvailability meets it.                          *)

(* doctor.go:271, net.ResolveUDPAddr("udp", listenAddr) on the addresses   *)
(* of ListenValues: host and port, or an error.                            *)
ResolveUDPAddr(listenAddr) ==
    CASE listenAddr = ":443" -> [err |-> FALSE, host |-> "", port |-> 443]
      [] listenAddr = ":8443" -> [err |-> FALSE, host |-> "", port |-> 8443]
      [] listenAddr = "192.0.2.1:8443" -> [err |-> FALSE, host |-> "192.0.2.1", port |-> 8443]
      [] OTHER -> [err |-> TRUE, host |-> "", port |-> 0]

(* doctor.go:281, net.ListenUDP: the errno of bind(2).  An address of      *)
(* another host cannot be bound; a port below 1024 needs privilege (on     *)
(* Windows, WSAEACCES: the port is reserved or held for exclusive use); a  *)
(* port somebody holds is in use.                                          *)
ListenUDP(udpAddr) ==
    IF udpAddr.host # "" THEN "EADDRNOTAVAIL"
    ELSE IF udpAddr.port < 1024 /\ ~privileged THEN "EACCES"
    ELSE IF portOwner # "free" THEN "EADDRINUSE"
    ELSE "ok"

(* doctor.go:283, err.Error(): the text of the bind error, word by word,   *)
(* as the Go runtime of each OS family words it.                           *)
ErrorText(errno) ==
    <<"listen", "udp", "bind:">> \o
    ( IF goos = "windows"
      THEN CASE errno = "EADDRINUSE" ->
                  <<"Only", "one", "usage", "of", "each", "socket", "address",
                    "is", "normally", "permitted.">>
             [] errno = "EACCES" ->
                  <<"An", "attempt", "was", "made", "to", "access", "a", "socket",
                    "in", "a", "way", "forbidden", "by", "its", "access", "permissions.">>
             [] OTHER ->
                  <<"The", "requested", "address", "is", "not", "valid", "in",
                    "its", "context.">>
      ELSE CASE errno = "EADDRINUSE" -> <<"address", "already", "in", "use">>
             [] errno = "EACCES" -> <<"permission", "denied">>
             [] OTHER -> <<"cannot", "assign", "requested", "address">> )

(* strings.Contains on texts held word by word.                            *)
Contains(s, substr) ==
    \E i \in 0 .. (Len(s) - Len(substr)) : SubSeq(s, i + 1, i + Len(substr)) = substr

(* doctor.go:282-304, the classification of the bind error.                *)
bindFailure(errStr) ==
    IF \/ Contains(errStr, <<"address", "already", "in", "use">>)
       \/ Contains(errStr, <<"Only", "one", "usage", "of", "each", "socket", "address">>)
    THEN checkResult("UDP Port", checkFail, "Port %s is already in use!")
    ELSE IF \/ Contains(errStr, <<"permission", "denied">>)
            \/ Contains(errStr, <<"bind:", "permission", "denied">>)
    THEN checkResult("UDP Port", checkFail, "Permission denied binding to %s.")
    ELSE checkResult("UDP Port", checkFail, "Cannot bind UDP %s: %v")

(* connClose left out: the process keeps the port.                         *)
connCloseMissing(owner) == owner

(* doctor.go:306, conn.Close(): the process gives back the port it holds.  *)
connClose(owner) == IF owner = "doctor" THEN "free" ELSE owner

(* doctor.go:262-315.                                                      *)
checkPortAvailability ==
    LET listenAddr == IF config.listen = "" THEN defaultListenAddr ELSE config.listen
        udpAddr == ResolveUDPAddr(listenAddr)
        errno == ListenUDP(udpAddr)
    IN  /\ IF udpAddr.err
           THEN /\ ret' = <<checkResult("UDP Port", checkFail, "Invalid listen address '%s': %v")>>
                /\ UNCHANGED portOwner
           ELSE IF errno # "ok"
           THEN /\ ret' = <<bindFailure(ErrorText(errno))>>
                /\ UNCHANGED portOwner
           ELSE /\ portOwner' = connClose("doctor")
                /\ ret' = <<checkResult("UDP Port", checkOK, "UDP %s is available.")>>
        /\ UNCHANGED <<configFile, config>>

-----------------------------------------------------------------------------
(* /proc/sys/net/core as checkUDPBuffers meets it.                         *)

\* What os.ReadFile answers for rmem_max or wmem_max: an error, or the text
\* of the file, character by character.
ProcReads ==
    { [err |-> TRUE, text |-> <<>>],
      [err |-> FALSE, text |-> <<"2","1","2","9","9","2","\n">>],
      [err |-> FALSE, text |-> <<"8","3","8","8","6","0","7","\n">>],
      [err |-> FALSE, text |-> <<"8","3","8","8","6","0","8","\n">>],
      [err |-> FALSE, text |-> <<"\n">>] }

\* The two files as one host presents them for a whole run; Unfixed when
\* every read draws its own answer.
Unfixed == [fixed |-> FALSE]
SysctlStates ==
    { [fixed |-> TRUE, rmem |-> r, wmem |-> w] : r \in ProcReads, w \in ProcReads }

Digits == <<"0","1","2","3","4","5","6","7","8","9">>
IsDigit(c) == \E d \in 1 .. 10 : Digits[d] = c
DigitVal(c) == (CHOOSE d \in 1 .. 10 : Digits[d] = c) - 1
IsSpace(c) == c \in {" ", "\t", "\n", "\r"}

(* doctor.go:331, strings.TrimSpace.                                       *)
RECURSIVE TrimSpace(_)
TrimSpace(s) ==
    IF s = <<>> THEN s
    ELSE IF IsSpace(Head(s)) THEN TrimSpace(Tail(s))
    ELSE IF IsSpace(s[Len(s)]) THEN TrimSpace(SubSeq(s, 1, Len(s) - 1))
    ELSE s

(* doctor.go:354-355, fmt.Sscanf(valStr, "%d", &val): the leading digits   *)
(* as a number; val keeps its zero value when there are none.              *)
RECURSIVE ScanDigits(_, _)
ScanDigits(s, acc) ==
    IF s = <<>> \/ ~IsDigit(Head(s)) THEN acc
    ELSE ScanDigits(Tail(s), 10 * acc + DigitVal(Head(s)))

Sscanf_d(valStr) ==
    IF valStr # <<>> /\ Head(valStr) = "-" THEN 0 - ScanDigits(Tail(valStr), 0)
    ELSE IF valStr # <<>> /\ Head(valStr) = "+" THEN ScanDigits(Tail(valStr), 0)
    ELSE ScanDigits(valStr, 0)

(* libya_tuning.md:384-388, fmt.Sprintf("%d", n) of a number that is not   *)
(* negative; the kernel renders a ceiling into its /proc file the same way. *)
RECURSIVE Decimal(_)
Decimal(n) ==
    IF n < 10 THEN <<Digits[n + 1]>>
    ELSE Decimal(n \div 10) \o <<Digits[(n % 10) + 1]>>

\* checkBufferValue with > where the source has >=.
checkBufferValueStrict(name, valStr, recommended) ==
    LET val == Sscanf_d(valStr)
    IN  IF val > recommended
        THEN checkResult(name, checkOK, "%d bytes (>= %d recommended). Good!")
        ELSE checkResult(name, checkWarn, "%d bytes (< %d recommended). Run the tuning script for full speed.")

(* doctor.go:353-368.                                                      *)
checkBufferValue(name, valStr, recommended) ==
    LET val == Sscanf_d(valStr)
    IN  IF val >= recommended
        THEN checkResult(name, checkOK, "%d bytes (>= %d recommended). Good!")
        ELSE checkResult(name, checkWarn, "%d bytes (< %d recommended). Run the tuning script for full speed.")

\* checkUDPBuffers without the fallback result for an empty list.
checkUDPBuffersNoFallback ==
    /\ \E rmem \in ProcReads, wmem \in ProcReads :
          /\ sysctl.fixed => rmem = sysctl.rmem /\ wmem = sysctl.wmem
          /\ ret' = IF goos # "linux"
                    THEN <<checkResult("UDP Buffers", checkWarn, "Buffer check only runs on Linux (current OS: %s).")>>
                    ELSE LET r == IF rmem.err THEN <<>>
                                  ELSE <<checkBufferValue("UDP rmem_max", TrimSpace(rmem.text), recommendedBuffer)>>
                             w == IF wmem.err THEN <<>>
                                  ELSE <<checkBufferValue("UDP wmem_max", TrimSpace(wmem.text), recommendedBuffer)>>
                         IN  r \o w
    /\ UNCHANGED <<configFile, config, portOwner>>

(* doctor.go:317-351.                                                      *)
checkUDPBuffers ==
    /\ \E rmem \in ProcReads, wmem \in ProcReads :
          /\ sysctl.fixed => rmem = sysctl.rmem /\ wmem = sysctl.wmem
          /\ ret' = IF goos # "linux"
                    THEN <<checkResult("UDP Buffers", checkWarn, "Buffer check only runs on Linux (current OS: %s).")>>
                    ELSE LET r == IF rmem.err THEN <<>>
                                  ELSE <<checkBufferValue("UDP rmem_max", TrimSpace(rmem.text), recommendedBuffer)>>
                             w == IF wmem.err THEN <<>>
                                  ELSE <<checkBufferValue("UDP wmem_max", TrimSpace(wmem.text), recommendedBuffer)>>
                         IN  IF Len(r \o w) = 0
                             THEN <<checkResult("UDP Buffers", checkWarn, "Could not read sysctl buffer values.")>>
                             ELSE r \o w
    /\ UNCHANGED <<configFile, config, portOwner>>

-----------------------------------------------------------------------------
(* doctor.go:380, strings.ToLower, letter by letter.                       *)
UpperCase == <<"A","B","C","D","E","F","G","H","I","J","K","L","M",
               "N","O","P","Q","R","S","T","U","V","W","X","Y","Z">>
LowerCase == <<"a","b","c","d","e","f","g","h","i","j","k","l","m",
               "n","o","p","q","r","s","t","u","v","w","x","y","z">>

\* strings.ToLower left out: the switch compares auth.type as written.
ToLowerMissing(s) == s

(* doctor.go:380, strings.ToLower on ASCII letters.                        *)
ToLower(s) ==
    [i \in 1 .. Len(s) |->
        IF \E k \in 1 .. 26 : UpperCase[k] = s[i]
        THEN LowerCase[CHOOSE k \in 1 .. 26 : UpperCase[k] = s[i]]
        ELSE s[i]]

(* doctor.go:390, len(pw): the number of bytes of the string's UTF-8       *)
(* encoding, one for an ASCII character and two for an Arabic letter.      *)
utf8Bytes(c) == IF c = "x" THEN 1 ELSE 2

RECURSIVE len(_)
len(str) == IF str = <<>> THEN 0 ELSE utf8Bytes(Head(str)) + len(Tail(str))

(* passwordResult with the length test off by one.                         *)
passwordResultOffByOne(pw) ==
    IF pw = <<>>
    THEN checkResult("Auth", checkFail, "auth.type is 'password' but auth.password is empty.")
    ELSE IF len(pw) <= shortPasswordLen
    THEN checkResult("Auth", checkWarn, "auth.password is very short (< 8 chars).")
    ELSE checkResult("Auth", checkOK, "Password authentication configured.")

(* doctor.go:381-401, case "password".                                     *)
passwordResult(pw) ==
    IF pw = <<>>
    THEN checkResult("Auth", checkFail, "auth.type is 'password' but auth.password is empty.")
    ELSE IF len(pw) < shortPasswordLen
    THEN checkResult("Auth", checkWarn, "auth.password is very short (< 8 chars).")
    ELSE checkResult("Auth", checkOK, "Password authentication configured.")

(* doctor.go:370-437.                                                      *)
checkAuthConfig ==
    /\ ret' =
         LET authType == config.authType
         IN  IF authType = <<>>
             THEN <<checkResult("Auth", checkFail, "No auth.type configured.")>>
             ELSE IF ToLower(authType) = <<"p","a","s","s","w","o","r","d">>
             THEN <<passwordResult(config.password)>>
             ELSE IF ToLower(authType) = <<"u","s","e","r","p","a","s","s">>
             THEN LET up == config.userpass
                  IN  IF Cardinality(DOMAIN up) = 0
                      THEN <<checkResult("Auth", checkFail, "auth.type is 'userpass' but no user:password entries found.")>>
                      ELSE <<checkResult("Auth", checkOK, "User/pass authentication configured (%d users).")>>
             ELSE IF ToLower(authType) \in {<<"h","t","t","p">>, <<"h","t","t","p","s">>}
             THEN LET url == config.url
                  IN  IF url = ""
                      THEN <<checkResult("Auth", checkFail, "auth.type is 'http' but auth.http.url is empty.")>>
                      ELSE <<checkResult("Auth", checkOK, "HTTP authentication configured: %s")>>
             ELSE <<checkResult("Auth", checkOK, "Authentication type: %s")>>
    /\ UNCHANGED <<configFile, config, portOwner>>

-----------------------------------------------------------------------------
(* runDoctor, doctor.go:40-95.                                             *)

\* The six calls of doctor.go:50-66, in the order they are written.
Checks == <<"checkConfigReadable", "checkTLSACMEConflict", "checkTLSFiles",
            "checkPortAvailability", "checkUDPBuffers", "checkAuthConfig">>

(* doctor.go:51 *)
callConfigReadable ==
    /\ pc = "checkConfigReadable"
    /\ checkConfigReadable
    /\ Collect("checkConfigReadable", "checkTLSACMEConflict")

(* doctor.go:54 *)
callTLSACMEConflict ==
    /\ pc = "checkTLSACMEConflict"
    /\ checkTLSACMEConflict
    /\ Collect("checkTLSACMEConflict", "checkTLSFiles")

(* doctor.go:57 *)
callTLSFiles ==
    /\ pc = "checkTLSFiles"
    /\ checkTLSFiles
    /\ Collect("checkTLSFiles", "checkPortAvailability")

(* callPortAvailability with a listen address that does not resolve made  *)
(* fatal: the run ends there.                                              *)
callPortAvailabilityFatal ==
    /\ pc = "checkPortAvailability"
    /\ checkPortAvailability
    /\ Collect("checkPortAvailability",
               IF ResolveUDPAddr(IF config.listen = "" THEN defaultListenAddr
                                 ELSE config.listen).err
               THEN "done" ELSE "checkUDPBuffers")

(* doctor.go:60 *)
callPortAvailability ==
    /\ pc = "checkPortAvailability"
    /\ checkPortAvailability
    /\ Collect("checkPortAvailability", "checkUDPBuffers")

(* doctor.go:63 *)
callUDPBuffers ==
    /\ pc = "checkUDPBuffers"
    /\ checkUDPBuffers
    /\ Collect("checkUDPBuffers", "checkAuthConfig")

(* doctor.go:66 *)
callAuthConfig ==
    /\ pc = "checkAuthConfig"
    /\ checkAuthConfig
    /\ Collect("checkAuthConfig", "report")

(* countLoop with the WARN test written as "not OK": a FAIL counts twice.  *)
RECURSIVE countLoopWarnNotOK(_, _, _)
countLoopWarnNotOK(rs, f, w) ==
    IF rs = <<>> THEN <<f, w>>
    ELSE LET r == Head(rs)
             f1 == IF r.Status = checkFail THEN f + 1 ELSE f
             w1 == IF r.Status # checkOK THEN w + 1 ELSE w
         IN  countLoopWarnNotOK(Tail(rs), f1, w1)

(* doctor.go:72-82, the counting loop: <<failCount, warnCount>> after the  *)
(* results rs, starting from <<f, w>>.                                     *)
RECURSIVE countLoop(_, _, _)
countLoop(rs, f, w) ==
    IF rs = <<>> THEN <<f, w>>
    ELSE LET r == Head(rs)
             f1 == IF r.Status = checkFail THEN f + 1 ELSE f
             w1 == IF r.Status = checkWarn THEN w + 1 ELSE w
         IN  countLoop(Tail(rs), f1, w1)

(* verdictLine with the warning branch tested before the error branch.    *)
verdictLineWarnFirst(fails, warns) ==
    IF fails = 0 /\ warns = 0 THEN "System Healthy - All checks passed!"
    ELSE IF warns > 0 THEN "System OK with %d warning(s)"
    ELSE "%d error(s), %d warning(s) found. Fix the issues above."

(* doctor.go:87-93, the verdict line.                                      *)
verdictLine(fails, warns) ==
    IF fails = 0 /\ warns = 0 THEN "System Healthy - All checks passed!"
    ELSE IF fails = 0 THEN "System OK with %d warning(s)"
    ELSE "%d error(s), %d warning(s) found. Fix the issues above."

(* doctor.go:94-95: runDoctor returns, nothing calls os.Exit, and the      *)
(* process ends with status 0.                                             *)
exitStatus(fails, warns) == 0

(* doctor.go:68-95: print the results, count, print the verdict, return.   *)
report ==
    /\ pc = "report"
    /\ LET counts == countLoop(results, 0, 0)
       IN  /\ failCount' = counts[1]
           /\ warnCount' = counts[2]
           /\ verdict' = verdictLine(counts[1], counts[2])
           /\ exitCode' = exitStatus(counts[1], counts[2])
    /\ pc' = "done"
    /\ UNCHANGED <<calls, ret, results, configFile, config, goos, privileged, portOwner>>
    /\ UNCHANGED <<sysctl, tunerVars>>

-----------------------------------------------------------------------------
\* No tuneUDPBuffer call is in progress: the doctor process starts no server.
nilConn == [nil |-> TRUE, closed |-> FALSE]
NotTuning ==
    /\ tunePC = "idle"
    /\ conn = nilConn
    /\ logger = "nil"
    /\ logged = <<>>
    /\ sockCalls = <<>>

(* A doctor process: `libyalink doctor`, with or without -c, on some host. *)
Init ==
    /\ pc = "checkConfigReadable"
    /\ calls = <<>>
    /\ ret = <<>>
    /\ results = <<>>
    /\ failCount = 0
    /\ warnCount = 0
    /\ verdict = ""
    /\ exitCode = -1
    /\ configFile \in {"", ExplicitConfigPath}
    /\ config = NothingLoaded
    /\ goos \in {"linux", "windows"}
    /\ privileged \in BOOLEAN
    /\ portOwner \in {"free", "other"}
    /\ sysctl = Unfixed
    /\ NotTuning

Next ==
    \/ callConfigReadable
    \/ callTLSACMEConflict
    \/ callTLSFiles
    \/ callPortAvailability
    \/ callUDPBuffers
    \/ callAuthConfig
    \/ report

Spec == Init /\ [][Next]_vars

-----------------------------------------------------------------------------
(* checkPortAvailability called several times in succession by one         *)
(* process, and then the server binding the listen address.                *)
InitPort ==
    /\ pc = "checkPortAvailability"
    /\ calls = <<>>
    /\ ret = <<>>
    /\ results = <<>>
    /\ failCount = 0
    /\ warnCount = 0
    /\ verdict = ""
    /\ exitCode = -1
    /\ configFile = ExplicitConfigPath
    /\ config \in {c \in ConfigFiles : ~c.hasTLS /\ c.hasACME /\ c.authType = <<>>}
    /\ goos \in {"linux", "windows"}
    /\ privileged \in BOOLEAN
    /\ portOwner \in {"free", "other"}
    /\ sysctl = Unfixed
    /\ NotTuning

\* The address checkPortAvailability and the server both bind.
listenUDPAddr ==
    ResolveUDPAddr(IF config.listen = "" THEN defaultListenAddr ELSE config.listen)

portCheckAgain ==
    /\ pc = "checkPortAvailability"
    /\ Len(calls) < MaxPortRuns
    /\ checkPortAvailability
    /\ results' = results \o ret'
    /\ calls' = Append(calls, "checkPortAvailability")
    /\ UNCHANGED <<pc, failCount, warnCount, verdict, exitCode, goos, privileged>>
    /\ UNCHANGED <<sysctl, tunerVars>>

serverListen ==
    /\ pc = "checkPortAvailability"
    /\ calls # <<>>
    /\ ~listenUDPAddr.err
    /\ ListenUDP(listenUDPAddr) = "ok"
    /\ portOwner' = "server"
    /\ pc' = "serving"
    /\ UNCHANGED <<calls, ret, results, failCount, warnCount, verdict, exitCode,
                   configFile, config, goos, privileged>>
    /\ UNCHANGED <<sysctl, tunerVars>>

NextPort == portCheckAgain \/ serverListen

SpecPort == InitPort /\ [][NextPort]_vars

-----------------------------------------------------------------------------
(* checkUDPBuffers on a host whose rmem_max and wmem_max do not change     *)
(* during the call: every operating system, every pair of file answers.    *)
InitUDP ==
    /\ pc = "checkUDPBuffers"
    /\ calls = <<>>
    /\ ret = <<>>
    /\ results = <<>>
    /\ failCount = 0
    /\ warnCount = 0
    /\ verdict = ""
    /\ exitCode = -1
    /\ configFile = ExplicitConfigPath
    /\ config = NothingLoaded
    /\ goos \in {"linux", "windows", "darwin"}
    /\ privileged = FALSE
    /\ portOwner = "free"
    /\ sysctl \in SysctlStates
    /\ NotTuning

udpCheckOnHost ==
    /\ pc = "checkUDPBuffers"
    /\ checkUDPBuffers
    /\ results' = results \o ret'
    /\ calls' = Append(calls, "checkUDPBuffers")
    /\ pc' = "returned"
    /\ UNCHANGED <<failCount, warnCount, verdict, exitCode, goos, privileged>>
    /\ UNCHANGED <<sysctl, tunerVars>>

NextUDP == udpCheckOnHost

SpecUDP == InitUDP /\ [][NextUDP]_vars

-----------------------------------------------------------------------------
(* docs/libya_tuning.md:270-390, the buffer tuner: tuneUDPBuffer called    *)
(* by the server on the socket it has bound.  What the socket answers to a *)
(* call is the environment's choice.                                       *)

\* libyalinkDesiredWriteBuffer at half the size of the source's.
libyalinkDesiredWriteBufferHalved == 4 * 1024 * 1024

(* libya_tuning.md:279-287.                                                *)
libyalinkDesiredReadBuffer == 8 * 1024 * 1024
libyalinkDesiredWriteBuffer == 8 * 1024 * 1024

\* formatBytes without its KB case.
formatBytesNoKB(b) ==
    IF b >= 1024 * 1024 THEN Decimal(b \div (1024 * 1024)) \o <<"M", "B">>
    ELSE Decimal(b) \o <<"B">>

(* libya_tuning.md:377-390.                                                *)
kb == 1024
mb == 1024 * kb
formatBytes(b) ==
    IF b >= mb THEN Decimal(b \div mb) \o <<"M", "B">>
    ELSE IF b >= kb THEN Decimal(b \div kb) \o <<"K", "B">>
    ELSE Decimal(b) \o <<"B">>

\* A zap log entry: level, message (a format and the strings put into it),
\* and the structured fields.
logEntry(level, format, args, fields) ==
    [level |-> level, format |-> format, args |-> args, fields |-> fields]

NoFields == [f \in {} |-> 0]

\* A call made on conn: SetReadBuffer/SetWriteBuffer with the bytes asked
\* for, SyscallConn, Control, and getsockopt with the value it answered;
\* err is the error returned ("" for nil).
sockCall(op, bytes, err) == [op |-> op, bytes |-> bytes, err |-> err]

\* The sockets a caller can pass: nil, open, or already closed.
Conns == {nilConn, [nil |-> FALSE, closed |-> FALSE], [nil |-> FALSE, closed |-> TRUE]}

\* The error SetReadBuffer/SetWriteBuffer can return on socket c.
SetBufferErrs(c) ==
    IF c.closed THEN {"use of closed network connection"}
    ELSE {"", "no buffer space available"}

\* The sizes the OS can report as granted: the Linux default ceiling and
\* its double, one byte short of the request, the request, and its double.
GrantedSizes == {212992, 425984, 8388607, 8388608, 16777216}

\* What the read-back finds: the step of it that fails ("" for none) and
\* the value getsockopt stores when no step fails.
ReadBacks ==
    { [failed |-> f, val |-> 0] : f \in {"SyscallConn", "Control", "getsockopt"} }
    \cup { [failed |-> "", val |-> v] : v \in GrantedSizes }

\* getSockOptRcvBuf answering the requested size when getsockopt fails.
getSockOptRcvBufAssumed(rb) ==
    IF rb.failed = "getsockopt" THEN libyalinkDesiredReadBuffer ELSE rb.val

(* buffers_unix.go:8-14 and 16-22.                                         *)
getSockOptRcvBuf(rb) == IF rb.failed = "getsockopt" THEN 0 ELSE rb.val
getSockOptSndBuf(rb) == IF rb.failed = "getsockopt" THEN 0 ELSE rb.val

(* libya_tuning.md:352-362 and 365-375: size keeps its zero value when     *)
(* Control does not run the callback.                                      *)
getUDPReadBufferSize(rb) ==
    IF rb.failed = "SyscallConn" THEN 0
    ELSE IF rb.failed = "Control" THEN 0
    ELSE getSockOptRcvBuf(rb)
getUDPWriteBufferSize(rb) ==
    IF rb.failed = "SyscallConn" THEN 0
    ELSE IF rb.failed = "Control" THEN 0
    ELSE getSockOptSndBuf(rb)

\* The calls one read-back makes on the socket.
readBackCalls(opt, rb) ==
    <<sockCall("SyscallConn", 0, IF rb.failed = "SyscallConn" THEN "invalid argument" ELSE "")>>
    \o (IF rb.failed = "SyscallConn" THEN <<>>
        ELSE <<sockCall("Control", 0, IF rb.failed = "Control" THEN "use of closed network connection" ELSE "")>>)
    \o (IF rb.failed \in {"SyscallConn", "Control"} THEN <<>>
        ELSE <<sockCall(opt, rb.val, IF rb.failed = "getsockopt" THEN "bad file descriptor" ELSE "")>>)

\* readOutcome with <= where the source has <.
readOutcomeStrict(err, granted) ==
    IF err # ""
    THEN logEntry("warn", "[LibyaLink] Failed to set UDP read buffer", <<>>,
                  [requested_bytes |-> libyalinkDesiredReadBuffer, error |-> err])
    ELSE IF granted <= libyalinkDesiredReadBuffer
    THEN logEntry("warn", "[LibyaLink] Requested %s read buffer -> OS granted %s. Warning: Run the tuning script to unlock full speed. See docs/libya_tuning.md",
                  <<formatBytes(libyalinkDesiredReadBuffer), formatBytes(granted)>>,
                  [requested_bytes |-> libyalinkDesiredReadBuffer, granted_bytes |-> granted])
    ELSE logEntry("info", "[LibyaLink] UDP read buffer: requested %s -> granted %s. Optimal!",
                  <<formatBytes(libyalinkDesiredReadBuffer), formatBytes(granted)>>,
                  [granted_bytes |-> granted])

(* libya_tuning.md:302-323, the entry logged for the read buffer.          *)
readOutcome(err, granted) ==
    IF err # ""
    THEN logEntry("warn", "[LibyaLink] Failed to set UDP read buffer", <<>>,
                  [requested_bytes |-> libyalinkDesiredReadBuffer, error |-> err])
    ELSE IF granted < libyalinkDesiredReadBuffer
    THEN logEntry("warn", "[LibyaLink] Requested %s read buffer -> OS granted %s. Warning: Run the tuning script to unlock full speed. See docs/libya_tuning.md",
                  <<formatBytes(libyalinkDesiredReadBuffer), formatBytes(granted)>>,
                  [requested_bytes |-> libyalinkDesiredReadBuffer, granted_bytes |-> granted])
    ELSE logEntry("info", "[LibyaLink] UDP read buffer: requested %s -> granted %s. Optimal!",
                  <<formatBytes(libyalinkDesiredReadBuffer), formatBytes(granted)>>,
                  [granted_bytes |-> granted])

(* libya_tuning.md:327-347, the entry logged for the write buffer.         *)
writeOutcome(err, granted) ==
    IF err # ""
    THEN logEntry("warn", "[LibyaLink] Failed to set UDP write buffer", <<>>,
                  [requested_bytes |-> libyalinkDesiredWriteBuffer, error |-> err])
    ELSE IF granted < libyalinkDesiredWriteBuffer
    THEN logEntry("warn", "[LibyaLink] Requested %s write buffer -> OS granted %s. Warning: Run the tuning script to unlock full speed. See docs/libya_tuning.md",
                  <<formatBytes(libyalinkDesiredWriteBuffer), formatBytes(granted)>>,
                  [requested_bytes |-> libyalinkDesiredWriteBuffer, granted_bytes |-> granted])
    ELSE logEntry("info", "[LibyaLink] UDP write buffer: requested %s -> granted %s. Optimal!",
                  <<formatBytes(libyalinkDesiredWriteBuffer), formatBytes(granted)>>,
                  [granted_bytes |-> granted])

\* Every doctor variable: the tuner runs in the server, not in a doctor run.
doctorVars == <<pc, calls, ret, results, failCount, warnCount, verdict, exitCode,
                configFile, config, goos, privileged, portOwner, sysctl>>

(* libya_tuning.md:294-298.                                                *)
tuneEntry ==
    /\ tunePC = "entry"
    /\ IF conn.nil \/ logger = "nil"
       THEN /\ tunePC' = "returned"
            /\ UNCHANGED logged
       ELSE /\ logged' = Append(logged, logEntry("info", "[LibyaLink] Tuning UDP socket buffers for Libyan network conditions...", <<>>, NoFields))
            /\ tunePC' = "read"
    /\ UNCHANGED <<conn, logger, sockCalls, doctorVars>>

\* tuneRead returning to the caller when SetReadBuffer fails.
tuneReadGivingUp ==
    /\ tunePC = "read"
    /\ \E err \in SetBufferErrs(conn), rb \in ReadBacks :
          /\ sockCalls' = sockCalls
                 \o <<sockCall("SetReadBuffer", libyalinkDesiredReadBuffer, err)>>
                 \o (IF err # "" THEN <<>> ELSE readBackCalls("getsockopt SO_RCVBUF", rb))
          /\ logged' = Append(logged, readOutcome(err, getUDPReadBufferSize(rb)))
          /\ tunePC' = IF err # "" THEN "returned" ELSE "write"
    /\ UNCHANGED <<conn, logger, doctorVars>>

(* libya_tuning.md:300-323.                                                *)
tuneRead ==
    /\ tunePC = "read"
    /\ \E err \in SetBufferErrs(conn), rb \in ReadBacks :
          /\ sockCalls' = sockCalls
                 \o <<sockCall("SetReadBuffer", libyalinkDesiredReadBuffer, err)>>
                 \o (IF err # "" THEN <<>> ELSE readBackCalls("getsockopt SO_RCVBUF", rb))
          /\ logged' = Append(logged, readOutcome(err, getUDPReadBufferSize(rb)))
    /\ tunePC' = "write"
    /\ UNCHANGED <<conn, logger, doctorVars>>

(* libya_tuning.md:325-348.                                                *)
tuneWrite ==
    /\ tunePC = "write"
    /\ \E err \in SetBufferErrs(conn), rb \in ReadBacks :
          /\ sockCalls' = sockCalls
                 \o <<sockCall("SetWriteBuffer", libyalinkDesiredWriteBuffer, err)>>
                 \o (IF err # "" THEN <<>> ELSE readBackCalls("getsockopt SO_SNDBUF", rb))
          /\ logged' = Append(logged, writeOutcome(err, getUDPWriteBufferSize(rb)))
    /\ tunePC' = "returned"
    /\ UNCHANGED <<conn, logger, doctorVars>>

\* The server has bound its socket and calls tuneUDPBuffer(conn, log).
InitTune ==
    /\ pc = "serving"
    /\ calls = <<>>
    /\ ret = <<>>
    /\ results = <<>>
    /\ failCount = 0
    /\ warnCount = 0
    /\ verdict = ""
    /\ exitCode = -1
    /\ configFile = ExplicitConfigPath
    /\ config = NothingLoaded
    /\ goos \in {"linux", "windows"}
    /\ privileged = FALSE
    /\ portOwner = "server"
    /\ sysctl = Unfixed
    /\ tunePC = "entry"
    /\ conn \in Conns
    /\ logger \in {"nil", "zap"}
    /\ logged = <<>>
    /\ sockCalls = <<>>

NextTune == tuneEntry \/ tuneRead \/ tuneWrite

SpecTune == InitTune /\ [][NextTune]_vars

\* tuneUDPBuffer is straight-line code: each statement is reached and runs.
SpecTuneLive == SpecTune /\ WF_vars(NextTune)

-----------------------------------------------------------------------------
(* checkAuthConfig called several times on one configuration, the          *)
(* operator changing only the letter case of auth.type between the calls.  *)

\* Further spellings of the auth types.
Userpass_mc == <<"U","s","e","r","P","a","s","s">>
HTTPS_uc == <<"H","T","T","P","S">>
TOKEN_uc == <<"T","O","K","E","N">>
AuthTypeSpellings ==
    {PASSWORD_lc, PASSWORD_uc, Password_mc, USERPASS_lc, Userpass_mc,
     HTTP_lc, HTTP_uc, HTTPS_lc, HTTPS_uc, TOKEN_lc, TOKEN_uc}

\* Two strings that differ at most in the case of their letters.
SameButCase(a, b) ==
    /\ Len(a) = Len(b)
    /\ \A i \in 1 .. Len(a) :
          \/ a[i] = b[i]
          \/ \E k \in 1 .. 26 : {a[i], b[i]} = {UpperCase[k], LowerCase[k]}

InitAuth ==
    /\ pc = "checkAuthConfig"
    /\ calls = <<>>
    /\ ret = <<>>
    /\ results = <<>>
    /\ failCount = 0
    /\ warnCount = 0
    /\ verdict = ""
    /\ exitCode = -1
    /\ configFile = ExplicitConfigPath
    /\ config \in {ConfigOf(t, "", a) : t \in CoreTLSSections, a \in AuthSections}
    /\ goos = "linux"
    /\ privileged = FALSE
    /\ portOwner = "free"
    /\ sysctl = Unfixed
    /\ NotTuning

authCheckAgain ==
    /\ pc = "checkAuthConfig"
    /\ Len(calls) < MaxAuthRuns
    /\ checkAuthConfig
    /\ results' = results \o ret'
    /\ calls' = Append(calls, "checkAuthConfig")
    /\ pc' = "respell"
    /\ UNCHANGED <<failCount, warnCount, verdict, exitCode, goos, privileged>>
    /\ UNCHANGED <<sysctl, tunerVars>>

\* The operator writes auth.type in another letter case; nothing else of
\* the configuration changes.
respellAuthType ==
    /\ pc = "respell"
    /\ \E t \in AuthTypeSpellings :
          /\ t # config.authType
          /\ SameButCase(t, config.authType)
          /\ config' = [config EXCEPT !.authType = t]
    /\ pc' = "checkAuthConfig"
    /\ UNCHANGED <<calls, ret, results, failCount, warnCount, verdict, exitCode,
                   configFile, goos, privileged, portOwner>>
    /\ UNCHANGED <<sysctl, tunerVars>>

NextAuth == authCheckAgain \/ respellAuthType

SpecAuth == InitAuth /\ [][NextAuth]_vars

-----------------------------------------------------------------------------
(* Vocabulary of the properties.                                           *)

\* The last check called was `check`, so `ret` is what it returned.
After(check) == calls # <<>> /\ calls[Len(calls)] = check

\* The Config Readability check of this run reported FAIL / OK.
ConfigFailed == results # <<>> /\ results[1].Name = "Config File" /\ results[1].Status = checkFail
ConfigLoaded == results # <<>> /\ results[1].Name = "Config File" /\ results[1].Status = checkOK

\* How many of the results rs have status st.
NumWithStatus(rs, st) == Cardinality({i \in DOMAIN rs : rs[i].Status = st})

\* The check a result comes from, by its position in Checks.
CheckOfName(name) ==
    CASE name = "Config File" -> 1
      [] name = "TLS/ACME" -> 2
      [] name \in {"TLS Cert", "TLS Key", "TLS Pair"} -> 3
      [] name = "UDP Port" -> 4
      [] name \in {"UDP rmem_max", "UDP wmem_max", "UDP Buffers"} -> 5
      [] name = "Auth" -> 6

-----------------------------------------------------------------------------
(* C1.  A doctor run ends with a non-zero exit status if and only if at     *)
(* least one collected result has status FAIL.  (Stated as the claim has   *)
(* it; runDoctor returns without ever setting an exit status.)             *)
C1_ExitNonZeroIffFail ==
    pc = "done" =>
        ((exitCode # 0) <=> (\E i \in DOMAIN results : results[i].Status = checkFail))

(* C2.  When the run is done, failCount is the number of results with      *)
(* status FAIL and warnCount the number with status WARN; OK results and   *)
(* checks that returned nothing count for neither.                         *)
C2_CountsExact ==
    pc = "done" =>
        /\ failCount = NumWithStatus(results, checkFail)
        /\ warnCount = NumWithStatus(results, checkWarn)
        /\ failCount + warnCount + NumWithStatus(results, checkOK) = Len(results)

\* A finished run with several FAILs, several WARNs, an OK, and a check
\* (TLS files) that returned no result.
C2_Witness ==
    /\ pc = "done"
    /\ failCount >= 2
    /\ warnCount >= 2
    /\ NumWithStatus(results, checkOK) >= 1
    /\ \A i \in DOMAIN results : CheckOfName(results[i].Name) # 3

(* C3.  The verdict printed is exactly one of the three, decided by the    *)
(* counts alone: all-clear iff no FAIL and no WARN, degraded iff no FAIL   *)
(* and at least one WARN, broken iff at least one FAIL.                    *)
C3_VerdictByCounts ==
    pc = "done" =>
        /\ verdict \in {"System Healthy - All checks passed!",
                        "System OK with %d warning(s)",
                        "%d error(s), %d warning(s) found. Fix the issues above."}
        /\ (verdict = "System Healthy - All checks passed!") <=> (failCount = 0 /\ warnCount = 0)
        /\ (verdict = "System OK with %d warning(s)") <=> (failCount = 0 /\ warnCount >= 1)
        /\ (verdict = "%d error(s), %d warning(s) found. Fix the issues above.") <=> (failCount >= 1)

\* A broken verdict in a run that also has WARNs: broken takes precedence.
C3_Witness ==
    /\ pc = "done"
    /\ failCount >= 1
    /\ warnCount >= 1
    /\ verdict = "%d error(s), %d warning(s) found. Fix the issues above."

(* C4.  The checks called so far are always the first ones of the          *)
(* registration order, each once; whatever the earlier checks returned,    *)
(* the next one is about to run, so the report is only reached after all   *)
(* six; and the results stand in the order of the checks they come from.   *)
C4_AllChecksInOrder ==
    /\ Len(calls) <= Len(Checks)
    /\ calls = SubSeq(Checks, 1, Len(calls))
    /\ pc \in {"report", "done"} => calls = Checks
    /\ pc \notin {"report", "done"} => (Len(calls) < Len(Checks) /\ pc = Checks[Len(calls) + 1])
    /\ pc # "done" => ENABLED Next
    /\ \A i, j \in DOMAIN results :
          i < j => CheckOfName(results[i].Name) <= CheckOfName(results[j].Name)

\* A finished run whose port check failed to resolve the listen address and
\* whose TLS/ACME check failed: the auth check still ran, last.
C4_Witness ==
    /\ pc = "done"
    /\ \E i \in DOMAIN results : results[i].Message = "Invalid listen address '%s': %v"
    /\ \E i \in DOMAIN results : results[i].Name = "TLS/ACME" /\ results[i].Status = checkFail
    /\ results[Len(results)].Name = "Auth"
    /\ calls = Checks

(* C5.  With a configuration loaded, checkTLSACMEConflict returns exactly  *)
(* one result: FAIL when tls and acme are both set, FAIL when neither is,  *)
(* OK naming TLS mode for tls alone, OK naming ACME mode for acme alone.   *)
C5_TLSACMEMapping ==
    (After("checkTLSACMEConflict") /\ ConfigLoaded) =>
        /\ Len(ret) = 1
        /\ ret[1].Name = "TLS/ACME"
        /\ (config.hasTLS /\ config.hasACME) =>
              (ret[1].Status = checkFail /\ ret[1].Message = "Both 'tls' and 'acme' are set.")
        /\ (~config.hasTLS /\ ~config.hasACME) =>
              (ret[1].Status = checkFail /\ ret[1].Message = "Neither 'tls' nor 'acme' is configured.")
        /\ (config.hasTLS /\ ~config.hasACME) =>
              (ret[1].Status = checkOK /\ ret[1].Message = "TLS mode: using local certificate files.")
        /\ (~config.hasTLS /\ config.hasACME) =>
              (ret[1].Status = checkOK /\ ret[1].Message = "ACME mode: using automatic certificate provisioning.")

\* The check has just returned FAIL for a loaded configuration with both set.
C5_Witness ==
    /\ After("checkTLSACMEConflict")
    /\ ConfigLoaded
    /\ config.hasTLS /\ config.hasACME
    /\ ret = <<checkResult("TLS/ACME", checkFail, "Both 'tls' and 'acme' are set.")>>

(* C6.  Whenever the Config Readability check of the run reported FAIL,    *)
(* checkTLSACMEConflict returns no result.  (Stated as the claim has it;   *)
(* the check tests viper.ConfigFileUsed(), which keeps the path of a file  *)
(* that could not be read or parsed.)                                      *)
C6_SkippedWhenConfigFailed ==
    (After("checkTLSACMEConflict") /\ ConfigFailed) => ret = <<>>

(* C7.  If the Config Readability check fails, each later check that reads *)
(* configuration keys (TLS/ACME, TLS files, authentication) returns no     *)
(* result.  (Stated as the claim has it.)                                  *)
C7_DownstreamSilentWhenConfigFailed ==
    ConfigFailed =>
        /\ After("checkTLSACMEConflict") => ret = <<>>
        /\ After("checkTLSFiles") => ret = <<>>
        /\ After("checkAuthConfig") => ret = <<>>

(* C8.  checkTLSFiles returns a "TLS Pair" result only if the per-file     *)
(* results of both the certificate and the key are OK.  (Stated as the     *)
(* claim has it; the code tests only that both paths are non-empty.)       *)
C8_PairOnlyWhenBothFilesOK ==
    After("checkTLSFiles") =>
        ((\E i \in DOMAIN ret : ret[i].Name = "TLS Pair") =>
            (ret[1].Status = checkOK /\ ret[2].Status = checkOK))

(* C9.  checkTLSFiles returns nothing when tls is not set; when it is set  *)
(* it returns one "TLS Cert" result, then one "TLS Key" result, then at    *)
(* most one "TLS Pair" result, and an empty path gives FAIL for its file.  *)
C9_TLSFilesShape ==
    After("checkTLSFiles") =>
        /\ ~config.hasTLS => ret = <<>>
        /\ config.hasTLS =>
              /\ Len(ret) \in {2, 3}
              /\ ret[1].Name = "TLS Cert"
              /\ ret[2].Name = "TLS Key"
              /\ Len(ret) = 3 => ret[3].Name = "TLS Pair"
              /\ config.cert = "" => ret[1].Status = checkFail
              /\ config.key = "" => ret[2].Status = checkFail

\* tls is set with an empty certificate path and a readable key: two
\* results, the certificate's FAIL first, and no pair result.
C9_Witness ==
    /\ After("checkTLSFiles")
    /\ config.hasTLS
    /\ config.cert = "" /\ config.key # ""
    /\ Len(ret) = 2
    /\ ret[1].Name = "TLS Cert" /\ ret[1].Status = checkFail
    /\ ret[2].Name = "TLS Key" /\ ret[2].Status = checkOK

(* C10.  checkPortAvailability never holds the port once it has returned;  *)
(* called again after it reported OK it reports OK again; and after an OK  *)
(* the server can bind the address.  (Under SpecPort.)                     *)
C10_PortReleased ==
    /\ portOwner # "doctor"
    /\ \A i \in DOMAIN results :
          (i < Len(results) /\ results[i].Status = checkOK) => results[i + 1].Status = checkOK
    /\ (pc = "checkPortAvailability" /\ results # <<>> /\ results[Len(results)].Status = checkOK) =>
          ENABLED serverListen

\* Two checks in succession both reported OK and the server then bound the
\* address.
C10_Witness ==
    /\ Len(results) >= 2
    /\ results[1].Status = checkOK
    /\ results[2].Status = checkOK
    /\ pc = "serving"
    /\ portOwner = "server"

-----------------------------------------------------------------------------
\* The auth.type values of the generated configurations, by the type they
\* spell whatever the letter case.
SpellsPassword(t) == t \in {PASSWORD_lc, PASSWORD_uc, Password_mc}
SpellsUserpass(t) == t \in {USERPASS_lc}
SpellsHTTP(t) == t \in {HTTP_lc, HTTPS_lc, HTTP_uc}

\* The status the mapping of C11 gives a configuration whose password has
\* the length pwLen.
MappedAuthStatus(cfg, pwLen) ==
    IF cfg.authType = <<>> THEN checkFail
    ELSE IF SpellsPassword(cfg.authType)
    THEN IF cfg.password = <<>> THEN checkFail
         ELSE IF pwLen < 8 THEN checkWarn ELSE checkOK
    ELSE IF SpellsUserpass(cfg.authType)
    THEN IF DOMAIN cfg.userpass = {} THEN checkFail ELSE checkOK
    ELSE IF SpellsHTTP(cfg.authType)
    THEN IF cfg.url = "" THEN checkFail ELSE checkOK
    ELSE checkOK

-----------------------------------------------------------------------------
(* C12: the UDP buffer check.                                              *)

\* The file was read and its text is a ceiling of at least 8388608 bytes.
AdequateCeiling(read) ==
    /\ ~read.err
    /\ \E n \in {212992, 8388607, 8388608} :
          read.text = Decimal(n) \o <<"\n">> /\ n >= 8388608

\* The ceilings whose file could be read, rmem_max first.
ReadableCeilings ==
    (IF sysctl.rmem.err THEN <<>> ELSE <<[name |-> "UDP rmem_max", read |-> sysctl.rmem]>>)
    \o (IF sysctl.wmem.err THEN <<>> ELSE <<[name |-> "UDP wmem_max", read |-> sysctl.wmem]>>)

\* C12: the UDP buffer adequacy check never returns FAIL and never an empty
\* list; off Linux it returns exactly one WARN; on Linux it returns one
\* result per readable ceiling, rmem_max before wmem_max, OK iff the value is
\* at least 8388608 and WARN otherwise, and exactly one WARN when neither
\* file can be read.
C12_UDPBuffersMapping ==
    After("checkUDPBuffers") =>
        /\ ret # <<>>
        /\ \A i \in DOMAIN ret : ret[i].Status # checkFail
        /\ goos # "linux" => Len(ret) = 1 /\ ret[1].Status = checkWarn
        /\ (goos = "linux" /\ ReadableCeilings = <<>>) =>
               Len(ret) = 1 /\ ret[1].Status = checkWarn
        /\ (goos = "linux" /\ ReadableCeilings # <<>>) =>
               /\ Len(ret) = Len(ReadableCeilings)
               /\ \A i \in DOMAIN ret :
                     /\ ret[i].Name = ReadableCeilings[i].name
                     /\ ret[i].Status = IF AdequateCeiling(ReadableCeilings[i].read)
                                        THEN checkOK ELSE checkWarn

\* On Linux, rmem_max reads exactly 8388608 and wmem_max cannot be read: one
\* OK result.
C12_Witness ==
    /\ After("checkUDPBuffers")
    /\ goos = "linux"
    /\ sysctl.rmem = [err |-> FALSE, text |-> Decimal(8388608) \o <<"\n">>]
    /\ sysctl.wmem.err
    /\ Len(ret) = 1
    /\ ret[1].Name = "UDP rmem_max"
    /\ ret[1].Status = checkOK

-----------------------------------------------------------------------------
(* C13: one outcome per direction of the buffer tuner.                     *)

Directions == {"read", "write"}
SetOp(dir) == IF dir = "read" THEN "SetReadBuffer" ELSE "SetWriteBuffer"
GetOp(dir) == IF dir = "read" THEN "getsockopt SO_RCVBUF" ELSE "getsockopt SO_SNDBUF"

\* The three messages of a direction.
FailedMsg(dir) ==
    IF dir = "read" THEN "[LibyaLink] Failed to set UDP read buffer"
    ELSE "[LibyaLink] Failed to set UDP write buffer"
ShortfallMsg(dir) ==
    IF dir = "read"
    THEN "[LibyaLink] Requested %s read buffer -> OS granted %s. Warning: Run the tuning script to unlock full speed. See docs/libya_tuning.md"
    ELSE "[LibyaLink] Requested %s write buffer -> OS granted %s. Warning: Run the tuning script to unlock full speed. See docs/libya_tuning.md"
OptimalMsg(dir) ==
    IF dir = "read" THEN "[LibyaLink] UDP read buffer: requested %s -> granted %s. Optimal!"
    ELSE "[LibyaLink] UDP write buffer: requested %s -> granted %s. Optimal!"

\* The log entries that report on a direction.
OutcomesOf(dir) ==
    {i \in DOMAIN logged : logged[i].format \in {FailedMsg(dir), ShortfallMsg(dir), OptimalMsg(dir)}}

\* The set-buffer calls of a direction, and the calls from a direction's
\* set-buffer call up to the other direction's.
SetCallsOf(dir) == {i \in DOMAIN sockCalls : sockCalls[i].op = SetOp(dir)}
CallsOf(dir) ==
    {i \in DOMAIN sockCalls :
        /\ \E k \in SetCallsOf(dir) : k <= i
        /\ dir = "read" => \A k \in SetCallsOf("write") : i < k}

\* What the OS granted a direction: the value its getsockopt call answered,
\* 0 when the read-back did not get one.
GrantedTo(dir) ==
    LET got == {i \in CallsOf(dir) : sockCalls[i].op = GetOp(dir) /\ sockCalls[i].err = ""}
    IN  IF got = {} THEN 0 ELSE sockCalls[CHOOSE i \in got : TRUE].bytes

\* The outcome of a direction is the one the claim gives for what the
\* socket answered.
OneOutcome(dir) ==
    /\ Cardinality(OutcomesOf(dir)) = 1
    /\ Cardinality(SetCallsOf(dir)) = 1
    /\ LET e == logged[CHOOSE i \in OutcomesOf(dir) : TRUE]
           set == sockCalls[CHOOSE i \in SetCallsOf(dir) : TRUE]
       IN  /\ set.err # "" =>
                /\ e.level = "warn"
                /\ e.format = FailedMsg(dir)
                /\ e.fields.error = set.err
                /\ "granted_bytes" \notin DOMAIN e.fields
                /\ CallsOf(dir) = SetCallsOf(dir)
           /\ (set.err = "" /\ GrantedTo(dir) >= 8388608) =>
                /\ e.level = "info"
                /\ e.format = OptimalMsg(dir)
                /\ e.fields.granted_bytes = GrantedTo(dir)
           /\ (set.err = "" /\ GrantedTo(dir) < 8388608) =>
                /\ e.level = "warn"
                /\ e.format = ShortfallMsg(dir)
                /\ Len(e.args) = 2
                /\ e.fields.requested_bytes = 8388608
                /\ e.fields.granted_bytes = GrantedTo(dir)

\* C13 as stated: once the tuner has returned, each direction has exactly
\* one outcome: a warning naming the error, without granted value and
\* read-back, when the set call failed; an informational "optimal" outcome
\* when it succeeded and granted >= requested; a warning naming both values
\* and the remediation pointer when granted < requested.
C13_OneOutcomePerDirection ==
    tunePC = "returned" => \A dir \in Directions : OneOutcome(dir)

\* C13, amended: the same for a call with a socket and a logger; a call with
\* a nil socket or a nil logger returns at once, makes no call on the socket
\* and logs nothing.
C13_OneOutcomePerDirectionWhenCalledWithBoth ==
    tunePC = "returned" =>
        IF conn.nil \/ logger = "nil"
        THEN logged = <<>> /\ sockCalls = <<>>
        ELSE \A dir \in Directions : OneOutcome(dir)

\* SetReadBuffer failed, SetWriteBuffer succeeded and the OS reports 212992.
C13_Witness ==
    /\ tunePC = "returned"
    /\ Len(logged) = 3
    /\ logged[2].format = FailedMsg("read")
    /\ logged[3].format = ShortfallMsg("write")
    /\ logged[3].fields.granted_bytes = 212992

-----------------------------------------------------------------------------
(* C14: a request of 8388608 bytes granted 212992 bytes.                   *)

\* The set-buffer call of a direction succeeded and the OS reports 212992.
Granted212992(dir) ==
    /\ \E i \in SetCallsOf(dir) : sockCalls[i].bytes = 8388608 /\ sockCalls[i].err = ""
    /\ \E i \in CallsOf(dir) :
          sockCalls[i].op = GetOp(dir) /\ sockCalls[i].err = "" /\ sockCalls[i].bytes = 212992
    /\ OutcomesOf(dir) # {}

\* The strings put into the message of a direction's outcome.
MessageArgs(dir) ==
    LET e == logged[CHOOSE i \in OutcomesOf(dir) : TRUE]
    IN  {e.args[k] : k \in DOMAIN e.args}

\* C14 as stated: the outcome is a shortfall and the message reproduces
\* 8388608 and 212992 verbatim.
C14_BothValuesVerbatimInMessage ==
    \A dir \in Directions :
        Granted212992(dir) =>
            /\ logged[CHOOSE i \in OutcomesOf(dir) : TRUE].format = ShortfallMsg(dir)
            /\ <<"8","3","8","8","6","0","8">> \in MessageArgs(dir)
            /\ <<"2","1","2","9","9","2">> \in MessageArgs(dir)

\* C14, amended: the outcome is a shortfall warning whose message gives the
\* two sizes as formatBytes renders them, "8MB" and "208KB"; 8388608 and
\* 212992 themselves are the entry's fields requested_bytes and
\* granted_bytes.
C14_ShortfallWithRenderedSizes ==
    \A dir \in Directions :
        Granted212992(dir) =>
            LET e == logged[CHOOSE i \in OutcomesOf(dir) : TRUE]
            IN  /\ e.level = "warn"
                /\ e.format = ShortfallMsg(dir)
                /\ e.args = << <<"8","M","B">>, <<"2","0","8","K","B">> >>
                /\ e.fields.requested_bytes = 8388608
                /\ e.fields.granted_bytes = 212992

\* The read buffer was asked 8388608 bytes and the OS granted 212992.
C14_Witness ==
    /\ Granted212992("read")
    /\ logged[2].level = "warn"
    /\ logged[2].fields = [requested_bytes |-> 8388608, granted_bytes |-> 212992]

-----------------------------------------------------------------------------
(* C15: one number for the request sizes and the diagnostic threshold.     *)

\* C15: the size the tuner requests for the read buffer, the size it
\* requests for the write buffer and the threshold checkUDPBuffers compares
\* rmem_max and wmem_max against are all 8388608 bytes: every set-buffer
\* call asks for exactly the diagnostic's threshold.
C15_RequestEqualsThreshold ==
    /\ libyalinkDesiredReadBuffer = 8388608
    /\ libyalinkDesiredWriteBuffer = 8388608
    /\ recommendedBuffer = 8388608
    /\ \A i \in DOMAIN sockCalls :
          sockCalls[i].op \in {"SetReadBuffer", "SetWriteBuffer"} =>
              sockCalls[i].bytes = recommendedBuffer

\* The tuner has asked for both buffers.
C15_Witness ==
    /\ tunePC = "returned"
    /\ \E i, j \in DOMAIN sockCalls :
          /\ sockCalls[i] = sockCall("SetReadBuffer", 8388608, "")
          /\ sockCalls[j] = sockCall("SetWriteBuffer", 8388608, "")

-----------------------------------------------------------------------------
(* C16: the end-to-end run on a broken configuration.                      *)

HasResult(name, status, message) ==
    \E i \in DOMAIN results : results[i] = checkResult(name, status, message)

\* A finished run on a loaded configuration with both tls and acme set, a
\* certificate path naming no file, the listen port held by another process
\* and no auth.type.
BrokenConfigurationRun ==
    /\ pc = "done"
    /\ ConfigLoaded
    /\ config.hasTLS /\ config.hasACME
    /\ config.cert # ""
    /\ HasResult("TLS Cert", checkFail, "File not found: %s")
    /\ portOwner = "other"
    /\ HasResult("UDP Port", checkFail, "Port %s is already in use!")
    /\ config.authType = <<>>

\* The report of such a run: at least 4 FAIL results and the broken verdict.
BrokenReport ==
    /\ NumWithStatus(results, checkFail) >= 4
    /\ verdict = verdictLine(1, 0)

\* C16: such a run yields a report with at least 4 FAIL results and the
\* broken verdict, and the process signals failure (a non-zero exit
\* status).
C16_BrokenRunSignalsFailure ==
    BrokenConfigurationRun => BrokenReport /\ exitCode # 0

-----------------------------------------------------------------------------
(* C17: the tuner is fire-and-forget.                                      *)

\* At most one set-buffer call per direction, and once the tuner has
\* returned from a read-buffer negotiation, whatever its outcome, exactly
\* one write-buffer negotiation was attempted.
NoRetryAndWriteAttempted ==
    /\ \A dir \in Directions : Cardinality(SetCallsOf(dir)) <= 1
    /\ (tunePC = "returned" /\ SetCallsOf("read") # {}) =>
           Cardinality(SetCallsOf("write")) = 1 /\ Cardinality(OutcomesOf("write")) = 1

\* C17: in one invocation the tuner calls set-read-buffer at most once and
\* set-write-buffer at most once, attempts the write-buffer negotiation
\* whatever the read-buffer negotiation gave, never closes (or otherwise
\* changes) the caller's socket, and always returns to the caller.
C17_FireAndForget ==
    /\ []NoRetryAndWriteAttempted
    /\ [][conn' = conn]_vars
    /\ <>(tunePC = "returned")

\* The tuner has returned after SetReadBuffer failed on an open socket and
\* SetWriteBuffer was still called.
C17_Witness ==
    /\ tunePC = "returned"
    /\ ~conn.closed
    /\ \E i \in SetCallsOf("read") : sockCalls[i].err # ""
    /\ \E i \in SetCallsOf("write") : sockCalls[i].err = ""

-----------------------------------------------------------------------------
(* C20: a set-buffer call that succeeds and a read-back that fails.        *)

\* The set-buffer call of a direction succeeded and a step of its read-back
\* (SyscallConn, Control or getsockopt) failed.
IntrospectionFailed(dir) ==
    /\ \E i \in SetCallsOf(dir) : sockCalls[i].err = ""
    /\ \E i \in CallsOf(dir) :
          /\ sockCalls[i].op \in {"SyscallConn", "Control", GetOp(dir)}
          /\ sockCalls[i].err # ""

\* C20: when a set-buffer call succeeds and the introspection fails, that
\* direction is reported as a shortfall warning with granted = 0, never as
\* optimal and never as a failed set.
C20_IntrospectionFailureIsShortfall ==
    \A dir \in Directions :
        IntrospectionFailed(dir) =>
            /\ Cardinality(OutcomesOf(dir)) = 1
            /\ LET e == logged[CHOOSE i \in OutcomesOf(dir) : TRUE]
               IN  /\ e.level = "warn"
                   /\ e.format = ShortfallMsg(dir)
                   /\ e.format # OptimalMsg(dir)
                   /\ e.format # FailedMsg(dir)
                   /\ e.fields.granted_bytes = 0
                   /\ "error" \notin DOMAIN e.fields

\* SetReadBuffer succeeded, getsockopt(SO_RCVBUF) failed, and the read
\* buffer is reported as a shortfall with 0 bytes granted.
C20_Witness ==
    /\ IntrospectionFailed("read")
    /\ \E i \in CallsOf("read") :
          sockCalls[i].op = GetOp("read") /\ sockCalls[i].err # ""
    /\ logged[2].format = ShortfallMsg("read")
    /\ logged[2].fields.granted_bytes = 0

-----------------------------------------------------------------------------
(* C18: the buckets of the port-availability check.                        *)

\* The error of the bind the check made: the port is as the check found it,
\* since the check leaves it as it was.
BindErrno == ListenUDP(listenUDPAddr)

\* C18: the port-availability check returns exactly one result: FAIL for a
\* listen address that cannot be resolved; when the bind fails, one FAIL
\* from the bucket of the error: address-in-use, permission-denied, or other
\* exactly when the error is neither of these; OK when the bind succeeds.
C18_PortBuckets ==
    After("checkPortAvailability") =>
        /\ Len(ret) = 1
        /\ ret[1].Name = "UDP Port"
        /\ IF listenUDPAddr.err
           THEN ret[1] = checkResult("UDP Port", checkFail, "Invalid listen address '%s': %v")
           ELSE /\ BindErrno = "ok" <=> ret[1].Status = checkOK
                /\ BindErrno # "ok" <=> ret[1].Status = checkFail
                /\ BindErrno = "EADDRINUSE" <=> ret[1].Message = "Port %s is already in use!"
                /\ BindErrno = "EACCES" <=> ret[1].Message = "Permission denied binding to %s."
                /\ BindErrno \notin {"ok", "EADDRINUSE", "EACCES"}
                       <=> ret[1].Message = "Cannot bind UDP %s: %v"

-----------------------------------------------------------------------------
(* C19: what the checks write.                                             *)

\* A step of the run leaves the Config Source (the loaded keys and the
\* path ConfigFileUsed reports) and the port as they were.
LeavesSharedState ==
    /\ config' = config
    /\ configFile' = configFile
    /\ portOwner' = portOwner

\* A step that calls a check adds that check's returned list, and nothing
\* else, to the end of the results.
WritesOwnResultsOnly ==
    pc # "report" => results' = results \o ret'

\* C19 as stated: no check changes the Config Source or any state shared
\* with another check; over the whole run the configuration's contents are
\* unchanged and each check writes only its own returned list.
C19_NoCheckMutatesConfig ==
    [][LeavesSharedState /\ WritesOwnResultsOnly]_vars

\* C19, amended: only the config-readability check changes the Config
\* Source (it loads the file the later checks read); every later step leaves
\* it unchanged, and each check writes only its own returned list.
C19_OnlyConfigCheckLoads ==
    [][ /\ pc # "checkConfigReadable" => LeavesSharedState
        /\ pc = "checkConfigReadable" => portOwner' = portOwner
        /\ WritesOwnResultsOnly ]_vars

\* The run is over; the config-readability check loaded a configuration
\* with tls and acme into a Config Source that held none, and the later
\* checks reported on it.
C19_Witness ==
    /\ pc = "done"
    /\ ConfigLoaded
    /\ config # NothingLoaded
    /\ config.hasTLS /\ config.hasACME
    /\ HasResult("TLS/ACME", checkFail, "Both 'tls' and 'acme' are set.")

-----------------------------------------------------------------------------
(* C21: how many results a run collects.                                   *)

\* How many of the collected results come from the k-th check.
NumFromCheck(k) ==
    Cardinality({i \in DOMAIN results : CheckOfName(results[i].Name) = k})

\* C21: every doctor run collects between 4 and 9 results: exactly one each
\* from config readability, port availability and auth, one or two from UDP
\* buffers, zero or one from TLS/ACME, and zero, two or three from TLS
\* files; the report is never empty and never longer than the capacity of
\* 10 the results slice starts with.
C21_ResultCounts ==
    pc \in {"report", "done"} =>
        /\ Len(results) \in 4 .. 9
        /\ NumFromCheck(1) = 1
        /\ NumFromCheck(2) \in {0, 1}
        /\ NumFromCheck(3) \in {0, 2, 3}
        /\ NumFromCheck(4) = 1
        /\ NumFromCheck(5) \in {1, 2}
        /\ NumFromCheck(6) = 1
        /\ results # <<>>
        /\ Len(results) <= resultsCap

\* A finished run with the most results: one for TLS/ACME, three for the
\* TLS files and two for the UDP buffers.
C21_Witness ==
    /\ pc = "done"
    /\ Len(results) = 9
    /\ NumFromCheck(3) = 3
    /\ NumFromCheck(5) = 2

-----------------------------------------------------------------------------
(* C22: auth.type is matched without regard to letter case.                *)

\* C22: configurations that differ only in the letter case of auth.type
\* receive the same status from the authentication check: all the results
\* of one configuration checked under several spellings agree, so a known
\* type in another case is validated as that type and not accepted as an
\* unknown one.
C22_CaseInsensitiveAuthType ==
    \A i, j \in DOMAIN results :
        /\ results[i].Name = "Auth"
        /\ results[i].Status = results[j].Status

\* A 7-byte password checked under one spelling of "password" and then
\* under another, "PASSWORD": WARN both times.
C22_Witness ==
    /\ pc = "respell"
    /\ Len(results) = 2
    /\ config.authType = PASSWORD_uc
    /\ Len(config.password) = 7
    /\ results[1].Status = checkWarn
    /\ results[2].Status = checkWarn

=============================================================================
